---- MODULE Spec2Model ----
(***************************************************************************)
(* Model of the task orchestration loop of kids/webagent:                  *)
(*   src/agent/main_agent.py   AgentState, ToolExecutor, MainAgent.run     *)
(*   src/llm/client.py         LLMClient.generate_response                 *)
(*   src/browser_tools/human_handoff.py   request_human_intervention       *)
(*                                                                         *)
(* Python strings are sequences of tokens.  A token is either one          *)
(* character or a fixed piece of text that the code only ever copies,      *)
(* searches for or compares as a whole (a marker, the completion phrase,   *)
(* a format-string fragment, a JSON text).  The collaborators of run (the  *)
(* browser, the model backend, the capabilities) are taken at the          *)
(* interface run uses them through: awaitable calls that return or raise.  *)
(***************************************************************************)
EXTENDS Integers, Sequences, FiniteSets, TLC

VARIABLES
    tools,          \* ToolExecutor.tools: the registered entries, in registration order
    context,        \* AgentState.context: the log, a sequence of [role, content]
    current_url,    \* AgentState.current_url
    is_human_in_control, \* AgentState.is_human_in_control
    iteration,      \* the loop variable of MainAgent.run
    pc,             \* position of the run coroutine
    llm_response,   \* run: the LLMResponse of the turn's model call
    final_response, \* run: the LLMResponse of the final-summary call
    result,         \* the value returned by run
    exit_path,      \* how run ended: "none", "finished", "exhausted", "raised"
    browser_url,    \* the actuator's location
    handoff_browser,\* human_handoff.browser is set (TRUE) or None (FALSE)
    h_current_url,  \* request_human_intervention: local current_url
    h_user_input,   \* request_human_intervention: local user_input
    h_shots,        \* screenshots requested by the handoff, in order
    h_reprompted,   \* history: the latest handoff prompted the operator again
    sent_context,   \* history: the context argument of run's latest model call
    last_api,       \* history: the backend outcome of the turn's model call
    final_api,      \* history: the backend outcome of the final-summary call
    last_exec,      \* history: the latest call of execute and what it did
    dispatched,     \* history: execute was called in the current turn
    n_obs,          \* history: observations taken by run so far
    n_llm,          \* history: non-final model calls made by run so far
    n_final,        \* history: final-summary model calls made by run so far
    n_dispatch,     \* history: calls of execute made by run so far
    last_call,      \* history: kind of run's latest collaborator call
    aborted,        \* history: the operator answered abort in a handoff of this run
    interp_in,      \* interpreter study: the backend outcome and is_final under study
    interp_out,     \* interpreter study: the LLMResponse computed for interp_in
    exec_in,        \* dispatcher study: the call under study
    exec_out,       \* dispatcher study: what execute did for exec_in
    main_pc,        \* position of main(): "off" where main is not modelled
    main_exc,       \* main(): an exception is propagating
    browser_open,   \* the actuator session (ChromeDriver.driver) is open
    session_open,   \* LLMClient.session is open
    reg_log,        \* registry study, history: the register_tool calls made
    defs_out,       \* registry study: what get_tool_definitions returned last
    defs_prev,      \* registry study: what it returned the time before
    n_gets          \* registry study: get_tool_definitions calls since the last
                    \* register_tool call, counted up to 2

agentVars   == <<context, current_url, is_human_in_control, iteration, pc,
                 llm_response, final_response, result, exit_path>>
handoffVars == <<h_current_url, h_user_input, h_shots, h_reprompted>>
envVars     == <<tools, browser_url, handoff_browser>>
histVars    == <<sent_context, last_api, final_api, last_exec, dispatched, n_obs, n_llm, n_final,
                 n_dispatch, last_call, aborted>>
studyVars   == <<interp_in, interp_out, exec_in, exec_out>>

mainVars    == <<main_pc, main_exc, browser_open, session_open>>
regVars     == <<reg_log, defs_out, defs_prev, n_gets>>

vars == <<agentVars, handoffVars, envVars, histVars, studyVars, mainVars, regVars>>

----------------------------------------------------------------------------
(* Bounds of the model *)

\* max_iterations of the modelled run (the attribute is configurable)
MaxIterations == 2
\* longest planner reply, in segments, of the interpreter study
MaxSegments == 3
\* capability results of the dispatcher study are up to this much longer
\* than the truncation ceiling
MaxExtra == 2

----------------------------------------------------------------------------
(* Strings *)

OPEN  == "<tool_call>"
CLOSE == "</tool_call>"
\* the completion phrase searched for by generate_response
DONE  == "<task-completed-phrase>"
WS    == " "
TXT   == "x"

\* Python None, where a string is expected
NoneVal == "<None>"
\* a JSON array used as a name: a Python list, which is unhashable
ListVal == "<list>"

\* str.find(tok): index of the first occurrence, 0 when there is none
Find(s, tok) ==
    IF \E i \in 1..Len(s) : s[i] = tok
    THEN CHOOSE i \in 1..Len(s) : s[i] = tok /\ \A j \in 1..(i-1) : s[j] # tok
    ELSE 0

\* str.rfind(tok): index of the last occurrence, 0 when there is none
FindLast(s, tok) ==
    IF \E i \in 1..Len(s) : s[i] = tok
    THEN CHOOSE i \in 1..Len(s) : s[i] = tok /\ \A j \in (i+1)..Len(s) : s[j] # tok
    ELSE 0

\* tok in s
Contains(s, tok) == \E i \in 1..Len(s) : s[i] = tok

\* str.strip()
RECURSIVE LStrip(_)
LStrip(s) == IF s # <<>> /\ Head(s) = WS THEN LStrip(Tail(s)) ELSE s

RECURSIVE RStrip(_)
RStrip(s) ==
    IF s # <<>> /\ s[Len(s)] = WS THEN RStrip(SubSeq(s, 1, Len(s) - 1)) ELSE s

Strip(s) == RStrip(LStrip(s))

\* str(x) of a name taken from a tool call
StrOf(x) == IF x = NoneVal THEN "None" ELSE IF x = ListVal THEN "['x']" ELSE x

----------------------------------------------------------------------------
(* JSON payloads.  A JSON text is one token; json.loads succeeds exactly on *)
(* a text that is one such token, and yields the value tabulated here.      *)

JsonTexts == {"j_nav", "j_handoff", "j_unknown", "j_badargs", "j_noparams",
              "j_nokeys", "j_empty", "j_num", "j_null", "j_listname"}

\* Python None as the value of tool_call
NoCall == [jtype |-> "none", nkeys |-> 0, name |-> NoneVal,
           mapping |-> FALSE, keys |-> {}]

\* json.loads(text) for a JSON text: jtype is the type of the value, nkeys
\* its number of keys, name is value.get("name"), and (mapping, keys)
\* describe value.get("parameters", {}).
JsonValue(t) ==
    CASE t = "j_nav"      -> [jtype |-> "object", nkeys |-> 2, name |-> "go_to_url",
                              mapping |-> TRUE, keys |-> {"url"}]
      [] t = "j_handoff"  -> [jtype |-> "object", nkeys |-> 2,
                              name |-> "request_human_intervention",
                              mapping |-> TRUE, keys |-> {"reason"}]
      [] t = "j_unknown"  -> [jtype |-> "object", nkeys |-> 2, name |-> "no_such_tool",
                              mapping |-> TRUE, keys |-> {}]
      [] t = "j_badargs"  -> [jtype |-> "object", nkeys |-> 2, name |-> "go_to_url",
                              mapping |-> TRUE, keys |-> {"bogus"}]
      [] t = "j_noparams" -> [jtype |-> "object", nkeys |-> 1, name |-> "go_to_url",
                              mapping |-> TRUE, keys |-> {}]
      [] t = "j_nokeys"   -> [jtype |-> "object", nkeys |-> 1, name |-> NoneVal,
                              mapping |-> TRUE, keys |-> {}]
      [] t = "j_empty"    -> [jtype |-> "object", nkeys |-> 0, name |-> NoneVal,
                              mapping |-> TRUE, keys |-> {}]
      [] t = "j_listname" -> [jtype |-> "object", nkeys |-> 1, name |-> ListVal,
                              mapping |-> TRUE, keys |-> {}]
      [] t = "j_num"      -> [jtype |-> "number", nkeys |-> 0, name |-> NoneVal,
                              mapping |-> FALSE, keys |-> {}]
      [] t = "j_null"     -> NoCall

\* json.loads raises JSONDecodeError unless the text is one JSON text
JsonParses(s) == Len(s) = 1 /\ s[1] \in JsonTexts

\* bool(tool_call): None and the empty dict are falsy
Truthy(tc) == tc.jtype = "object" /\ tc.nkeys > 0

\* LLMResponse declares tool_call: Optional[Dict[str, Any]]; constructing
\* it with any other value raises a validation error
ValidToolCall(tc) == tc.jtype \in {"none", "object"}

----------------------------------------------------------------------------
(* LLMClient.generate_response *)

ErrPrefix == "<llm-call-error: >"

\* mutant: the except branch reports the task as finished
ErrorResponse_finished(err) ==
    [content |-> <<ErrPrefix, err>>, tool_call |-> NoCall, is_finished |-> TRUE]

\* the response of the except branch
ErrorResponse(err) ==
    [content |-> <<ErrPrefix, err>>, tool_call |-> NoCall, is_finished |-> FALSE]

\* mutant: the markers are searched from the end (rfind)
tool_call_str_last(content) ==
    Strip(SubSeq(content, FindLast(content, OPEN) + 1, FindLast(content, CLOSE) - 1))

\* content[start:end].strip(), with start and end as the code computes them
tool_call_str(content) ==
    Strip(SubSeq(content, Find(content, OPEN) + 1, Find(content, CLOSE) - 1))

\* content with the text from the opening marker to the closing marker removed
RemoveBlock(content) ==
    Strip(SubSeq(content, 1, Find(content, OPEN) - 1)
          \o SubSeq(content, Find(content, CLOSE) + 1, Len(content)))

\* mutant: the completion phrase finishes the task whatever tool_call is
ParseReply_phraseWins(content, is_final) ==
    LET has    == Contains(content, OPEN) /\ Contains(content, CLOSE)
        parsed == has /\ JsonParses(tool_call_str(content))
        tc     == IF parsed THEN JsonValue(tool_call_str(content)[1]) ELSE NoCall
        text   == IF parsed THEN RemoveBlock(content) ELSE content
    IN  IF ~ValidToolCall(tc)
        THEN ErrorResponse("validation error")
        ELSE [content     |-> text,
              tool_call   |-> tc,
              is_finished |-> is_final \/ Contains(text, DONE)]

\* the try body after the backend returned `content`
ParseReply(content, is_final) ==
    LET has    == Contains(content, OPEN) /\ Contains(content, CLOSE)
        parsed == has /\ JsonParses(tool_call_str(content))
        tc     == IF parsed THEN JsonValue(tool_call_str(content)[1]) ELSE NoCall
        text   == IF parsed THEN RemoveBlock(content) ELSE content
    IN  IF ~ValidToolCall(tc)
        THEN ErrorResponse("validation error")
        ELSE [content     |-> text,
              tool_call   |-> tc,
              is_finished |-> is_final \/ (Contains(text, DONE) /\ ~Truthy(tc))]

\* api is the outcome of _call_openai_api: [ok, content, err]
generate_response(api, is_final) ==
    IF api.ok THEN ParseReply(api.content, is_final) ELSE ErrorResponse(api.err)

ApiOk(content) == [ok |-> TRUE, content |-> content, err |-> ""]
ApiFail == [ok |-> FALSE, content |-> <<>>, err |-> "api failure"]

----------------------------------------------------------------------------
(* ToolExecutor *)

\* the length ceiling of execute
MaxResultLen == 2000

TruncMark == "...[result truncated]"
\* the number of characters of the truncation marker
MarkLen == 11
HandoffTool == "request_human_intervention"

\* the registrations of MainAgent._register_tools, in order: the name, the
\* callable, the description and the keys of the parameters mapping
Registrations ==
    << [name |-> "go_to_url",                func |-> "f_go_to_url", description |-> "d_go_to_url", keys |-> {"url"}],
       [name |-> "back",                     func |-> "f_back", description |-> "d_back", keys |-> {}],
       [name |-> "forward",                  func |-> "f_forward", description |-> "d_forward", keys |-> {}],
       [name |-> "get_page_content",         func |-> "f_get_page_content", description |-> "d_get_page_content", keys |-> {"selector"}],
       [name |-> "extract_text_by_selector", func |-> "f_extract_text_by_selector", description |-> "d_extract_text_by_selector", keys |-> {"selector"}],
       [name |-> "click",                    func |-> "f_click", description |-> "d_click", keys |-> {"selector"}],
       [name |-> "type_text",                func |-> "f_type_text", description |-> "d_type_text", keys |-> {"selector", "text"}],
       [name |-> "scroll_down",              func |-> "f_scroll_down", description |-> "d_scroll_down", keys |-> {"pixels"}],
       [name |-> "scroll_up",                func |-> "f_scroll_up", description |-> "d_scroll_up", keys |-> {"pixels"}],
       [name |-> "take_screenshot",          func |-> "f_take_screenshot", description |-> "d_take_screenshot", keys |-> {"description"}],
       [name |-> HandoffTool,                func |-> "f_handoff", description |-> "d_handoff", keys |-> {"reason"}] >>

\* mutant: every registration adds an entry at the end
register_tool_append(reg, entry) == Append(reg, entry)

\* self.tools[name] = {...}: a new name is added at the end, a registered
\* one keeps its place and has its entry overwritten
register_tool(reg, entry) ==
    IF \E i \in 1..Len(reg) : reg[i].name = entry.name
    THEN [i \in 1..Len(reg) |-> IF reg[i].name = entry.name THEN entry ELSE reg[i]]
    ELSE Append(reg, entry)

\* mutant: the descriptors are listed last registered first
get_tool_definitions_reversed(reg) ==
    [i \in 1..Len(reg) |->
        [name |-> reg[Len(reg) + 1 - i].name,
         description |-> reg[Len(reg) + 1 - i].description,
         parameters |-> reg[Len(reg) + 1 - i].keys]]

\* one ToolDefinition per entry of self.tools, in the order of the dict
get_tool_definitions(reg) ==
    [i \in 1..Len(reg) |->
        [name |-> reg[i].name,
         description |-> reg[i].description,
         parameters |-> reg[i].keys]]

RECURSIVE RegisterAll(_, _)
RegisterAll(reg, entries) ==
    IF entries = <<>> THEN reg
    ELSE RegisterAll(register_tool(reg, Head(entries)), Tail(entries))

\* tool_name in self.tools
Registered(reg, name) == \E i \in 1..Len(reg) : reg[i].name = name

\* the required parameters of the registered callables the planner of
\* this model names; every other parameter of theirs is unknown to them
RequiredKeys(name) ==
    CASE name = "go_to_url"  -> {"url"}
      [] name = HandoffTool  -> {"reason"}
      [] OTHER               -> {}

\* tool_func(**parameters) binds: parameters is a mapping whose keys are
\* exactly the required parameters (the two callables have no optional one)
Binds(name, call) == call.mapping /\ call.keys = RequiredKeys(name)

\* mutant: a string of exactly the ceiling's length is cut as well
Truncate_atCeiling(s) ==
    IF Len(s) >= MaxResultLen THEN SubSeq(s, 1, MaxResultLen - 1) \o <<TruncMark>> ELSE s

\* result[:2000] + marker for a string longer than the ceiling
Truncate(s) ==
    IF Len(s) > MaxResultLen THEN SubSeq(s, 1, MaxResultLen) \o <<TruncMark>> ELSE s

SuccessText(name, body) == <<"tool '", StrOf(name), "' succeeded: ">> \o body
FailureText(name, err)  == <<"tool '", StrOf(name), "' failed: ">> \o err
UnknownText(name)       == <<"error: unknown tool '", StrOf(name), "'">>

\* mutant: a failure of the capability is not caught
execute_noCatch(reg, call, outcome) ==
    IF call.name = ListVal
    THEN [raised |-> TRUE, invoked |-> FALSE, text |-> <<>>]
    ELSE IF ~Registered(reg, call.name)
    THEN [raised |-> FALSE, invoked |-> FALSE, text |-> UnknownText(call.name)]
    ELSE IF ~Binds(call.name, call)
    THEN [raised |-> TRUE, invoked |-> FALSE, text |-> <<>>]
    ELSE IF outcome.kind = "raise"
    THEN [raised |-> TRUE, invoked |-> TRUE, text |-> <<>>]
    ELSE [raised |-> FALSE, invoked |-> TRUE,
          text |-> SuccessText(call.name,
                      IF outcome.kind = "str" THEN Truncate(outcome.val)
                      ELSE outcome.val)]

\* mutant: a returned dictionary whose success is False is reported as a
\* failure of the tool
execute_judgesResult(reg, call, outcome) ==
    IF call.name = ListVal
    THEN [raised |-> TRUE, invoked |-> FALSE, text |-> <<>>]
    ELSE IF ~Registered(reg, call.name)
    THEN [raised |-> FALSE, invoked |-> FALSE, text |-> UnknownText(call.name)]
    ELSE IF ~Binds(call.name, call)
    THEN [raised |-> FALSE, invoked |-> FALSE,
          text |-> FailureText(call.name, <<"TypeError">>)]
    ELSE IF outcome.kind = "raise"
    THEN [raised |-> FALSE, invoked |-> TRUE,
          text |-> FailureText(call.name, outcome.val)]
    ELSE IF outcome.kind = "other" /\ outcome.val # <<>>
            /\ outcome.val[1] = "{success: False, aborted: True, current_url: "
    THEN [raised |-> FALSE, invoked |-> TRUE,
          text |-> FailureText(call.name, outcome.val)]
    ELSE [raised |-> FALSE, invoked |-> TRUE,
          text |-> SuccessText(call.name,
                      IF outcome.kind = "str" THEN Truncate(outcome.val)
                      ELSE outcome.val)]

\* ToolExecutor.execute(tool_name, parameters), given what the capability
\* does when it is invoked: outcome = [kind, val] with kind "str" (returns
\* the string val), "other" (returns a value that is no string, val its
\* str()) or "raise" (raises an Exception, val its str()).
\* raised: execute raised; invoked: the body of the capability ran.
execute(reg, call, outcome) ==
    IF call.name = ListVal
    THEN [raised |-> TRUE, invoked |-> FALSE, text |-> <<>>]
    ELSE IF ~Registered(reg, call.name)
    THEN [raised |-> FALSE, invoked |-> FALSE, text |-> UnknownText(call.name)]
    ELSE IF ~Binds(call.name, call)
    THEN [raised |-> FALSE, invoked |-> FALSE,
          text |-> FailureText(call.name, <<"TypeError">>)]
    ELSE IF outcome.kind = "raise"
    THEN [raised |-> FALSE, invoked |-> TRUE,
          text |-> FailureText(call.name, outcome.val)]
    ELSE [raised |-> FALSE, invoked |-> TRUE,
          text |-> SuccessText(call.name,
                      IF outcome.kind = "str" THEN Truncate(outcome.val)
                      ELSE outcome.val)]

----------------------------------------------------------------------------
(* request_human_intervention *)

AbortMsg == "<task-terminated-by-user>"

\* user_input.lower()
Lower(inp) == IF inp = "DONE" THEN "done" ELSE IF inp = "Abort" THEN "abort" ELSE inp

\* what the operator may type at the prompt; EOF makes input() raise
OperatorInputs == {"done", "abort", "help", "DONE", "Abort", "what?", "<EOF>"}

\* mutant: the wait ends at the first input, whatever it is
StillWaiting_never(inp) == FALSE

\* mutant: the help word ends the wait as well
StillWaiting_helpEnds(inp) == Lower(inp) \notin {"done", "abort", "help"}

\* the loop condition of the wait for the operator
StillWaiting(inp) == Lower(inp) \notin {"done", "abort"}

\* the returned dictionaries, as execute formats them with str()
HandoffNoBrowser == <<"{success: False, message: <browser-not-initialised>, current_url: None}">>
HandoffAborted(url) ==
    <<"{success: False, aborted: True, current_url: ", url, ", message: ", AbortMsg, "}">>
HandoffResumed(before, after) ==
    <<"{success: True, aborted: False, previous_url: ", before,
      ", current_url: ", after, ", message: <handoff-done-from ", before, " to ", after, ">}">>
HandoffFailed(url) ==
    <<"{success: False, current_url: ", url, ", message: <handoff-failed: EOFError>}">>

\* mutant: the resumed result repeats the location read at entry
HandoffReturn_staleAfter(inp, before, now) ==
    IF inp = "<EOF>" THEN HandoffFailed(now)
    ELSE IF Lower(inp) = "abort" THEN HandoffAborted(now)
    ELSE HandoffResumed(before, before)

\* mutant: an abort is reported as a resumed handoff
HandoffReturn_abortResumes(inp, before, now) ==
    IF inp = "<EOF>" THEN HandoffFailed(now)
    ELSE HandoffResumed(before, now)

\* the value returned once the operator's input ended the wait or raised
HandoffReturn(inp, before, now) ==
    IF inp = "<EOF>" THEN HandoffFailed(now)
    ELSE IF Lower(inp) = "abort" THEN HandoffAborted(now)
    ELSE HandoffResumed(before, now)

----------------------------------------------------------------------------
(* MainAgent.run *)

Locations == {"u0", "u1"}

NoResponse == [content |-> <<>>, tool_call |-> NoCall, is_finished |-> FALSE]

RepromptText == "<please-give-a-concrete-tool-call>"
FinishedFallback  == "<task-finished-without-result>"
ExhaustedFallback == "<max-iterations-reached-task-may-be-incomplete>"

\* _get_current_observation: the summary
Observation(url, human) ==
    <<"page: ", "title of ", url, " (URL: ", url, ")">>
    \o (IF human THEN <<"state: waiting for the operator">> ELSE <<>>)

ObservationEntry(url, human) ==
    [role |-> "system", content |-> <<"observation: ">> \o Observation(url, human)]
PlannerEntry(text) == [role |-> "assistant", content |-> text]
ToolResultEntry(text) == [role |-> "system", content |-> <<"tool result: ">> \o text]
RepromptEntry == [role |-> "user", content |-> <<RepromptText>>]

\* mutant: the loop runs one turn too many
LoopContinues_offByOne(it) == it <= MaxIterations

\* for iteration in range(self.max_iterations)
LoopContinues(it) == it < MaxIterations

\* mutant: the reasoning is recorded even when it is empty
RecordThought_always(ctx, resp) == Append(ctx, PlannerEntry(resp.content))

\* mutant: the reasoning takes the place of the log's last entry
RecordThought_overwrite(ctx, resp) ==
    IF resp.content # <<>>
    THEN [ctx EXCEPT ![Len(ctx)] = PlannerEntry(resp.content)]
    ELSE ctx

\* the log after the planner's reasoning was recorded
RecordThought(ctx, resp) ==
    IF resp.content # <<>> THEN Append(ctx, PlannerEntry(resp.content)) ELSE ctx

\* mutant: a tool call that is not None is dispatched before the finished
\* signal is looked at
Branch_toolFirst(resp) ==
    IF resp.tool_call # NoCall THEN "dispatch"
    ELSE IF resp.is_finished THEN "final"
    ELSE "reprompt"

\* mutant: a reply without a tool call ends the task
Branch_proseEnds(resp) ==
    IF resp.is_finished THEN "final"
    ELSE IF Truthy(resp.tool_call) THEN "dispatch"
    ELSE "final"

\* where run goes after a non-final response
Branch(resp) ==
    IF resp.is_finished THEN "final"
    ELSE IF Truthy(resp.tool_call) THEN "dispatch"
    ELSE "reprompt"

\* the value run returns after the final-summary call
\* mutant: an error response of the final call gives the fallback notice
finished_result_hidesError(resp) ==
    IF resp.content # <<>> /\ resp.content[1] # ErrPrefix
    THEN resp.content ELSE <<FinishedFallback>>

finished_result(resp) ==
    IF resp.content # <<>> THEN resp.content ELSE <<FinishedFallback>>

exhausted_result(resp) ==
    IF resp.content # <<>> THEN resp.content ELSE <<ExhaustedFallback>>

\* what the planner may reply to a non-final request in the modelled runs
RunReplies ==
    { <<TXT>>,
      <<>>,
      <<TXT, DONE>>,
      <<TXT, OPEN, "j_nav", CLOSE>>,
      <<OPEN, "j_handoff", CLOSE>>,
      <<OPEN, "j_unknown", CLOSE>>,
      <<OPEN, "j_badargs", CLOSE>>,
      <<DONE, OPEN, "j_nav", CLOSE>>,
      <<DONE, OPEN, TXT, CLOSE>>,
      <<OPEN, TXT, CLOSE>>,
      <<OPEN, "j_nokeys", CLOSE>>,
      <<OPEN, "j_empty", CLOSE, DONE>>,
      <<OPEN, "j_num", CLOSE>>,
      <<OPEN, "j_listname", CLOSE>>,
      <<OPEN, "j_unknown", CLOSE, OPEN, "j_nav", CLOSE>>,
      <<OPEN, TXT, CLOSE, TXT, OPEN, "j_nav", CLOSE>>,
      <<CLOSE, OPEN, "j_nav", CLOSE, OPEN, "j_handoff", CLOSE>> }

\* what the backend may reply to the final-summary request
FinalReplies == { <<>>, <<TXT>> }

\* what a capability other than the handoff may do when invoked
CapOutcomes ==
    { [kind |-> "str",   val |-> <<"o", "k">>],
      [kind |-> "other", val |-> <<"{success: True}">>],
      [kind |-> "raise", val |-> <<"boom">>] }

\* the call run makes from a tool_call: name and parameters
CallOf(tc) == [name |-> tc.name, mapping |-> tc.mapping, keys |-> tc.keys]

\* mutant: the observation is appended but current_url is not refreshed
Observe_noRefresh ==
    /\ pc = "loop" /\ LoopContinues(iteration)
    /\ context' = Append(context, ObservationEntry(browser_url, is_human_in_control))
    /\ pc' = "model"
    /\ n_obs' = n_obs + 1
    /\ last_call' = "observe"
    /\ dispatched' = FALSE
    /\ UNCHANGED <<current_url, is_human_in_control, iteration, llm_response,
                   final_response, result, exit_path, sent_context, last_api, final_api, last_exec,
                   n_llm, n_final, n_dispatch, aborted>>
    /\ UNCHANGED <<handoffVars, envVars, studyVars, mainVars, regVars>>

\* the turn's observation
Observe ==
    /\ pc = "loop" /\ LoopContinues(iteration)
    /\ current_url' = browser_url
    /\ context' = Append(context, ObservationEntry(browser_url, is_human_in_control))
    /\ pc' = "model"
    /\ n_obs' = n_obs + 1
    /\ last_call' = "observe"
    /\ dispatched' = FALSE
    /\ UNCHANGED <<is_human_in_control, iteration, llm_response, final_response, result,
                   exit_path, sent_context, last_api, final_api, last_exec, n_llm, n_final,
                   n_dispatch, aborted>>
    /\ UNCHANGED <<handoffVars, envVars, studyVars, mainVars, regVars>>

\* the browser raises while the observation is taken: run raises
ObserveFault ==
    /\ pc = "loop" /\ LoopContinues(iteration)
    /\ pc' = "raised"
    /\ exit_path' = "raised"
    /\ last_call' = "observe"
    /\ dispatched' = FALSE
    /\ UNCHANGED <<context, current_url, is_human_in_control, iteration, llm_response,
                   final_response, result, sent_context, last_api, final_api, last_exec, n_obs,
                   n_llm, n_final, n_dispatch, aborted>>
    /\ UNCHANGED <<handoffVars, envVars, studyVars, mainVars, regVars>>

\* the turn's model call, the record of the reasoning and the branch taken;
\* the re-prompt branch has no await and is part of this step
ModelCall ==
    /\ pc = "model"
    /\ \E api \in {ApiOk(r) : r \in RunReplies} \cup {ApiFail} :
         LET resp == generate_response(api, FALSE)
             ctx  == RecordThought(context, resp)
         IN  /\ llm_response' = resp
             /\ last_api' = api
             /\ pc' = IF Branch(resp) = "reprompt" THEN "sleep" ELSE Branch(resp)
             /\ context' = IF Branch(resp) = "reprompt"
                           THEN Append(ctx, RepromptEntry) ELSE ctx
    /\ sent_context' = context
    /\ n_llm' = n_llm + 1
    /\ last_call' = "model"
    /\ UNCHANGED <<current_url, is_human_in_control, iteration, final_response, result, final_api,
                   exit_path, last_exec, dispatched, n_obs, n_final, n_dispatch, aborted>>
    /\ UNCHANGED <<handoffVars, envVars, studyVars, mainVars, regVars>>

\* mutant: the reply of the final-summary call is recorded in the log
FinalCall_recordsReply(path) ==
    /\ \E api \in {ApiOk(r) : r \in FinalReplies} \cup {ApiFail} :
         LET resp == generate_response(api, TRUE)
         IN  /\ final_response' = resp
             /\ final_api' = api
             /\ context' = Append(context, PlannerEntry(resp.content))
             /\ result' = IF path = "finished" THEN finished_result(resp)
                          ELSE exhausted_result(resp)
    /\ sent_context' = context
    /\ n_final' = n_final + 1
    /\ last_call' = "final"
    /\ exit_path' = path
    /\ pc' = "returned"
    /\ UNCHANGED <<current_url, is_human_in_control, iteration, llm_response,
                   last_api, last_exec, dispatched, n_obs, n_llm, n_dispatch, aborted>>
    /\ UNCHANGED <<handoffVars, envVars, studyVars, mainVars, regVars>>

\* the final-summary call, made on the finished path or after the loop
FinalCall(path) ==
    /\ \E api \in {ApiOk(r) : r \in FinalReplies} \cup {ApiFail} :
         LET resp == generate_response(api, TRUE)
         IN  /\ final_response' = resp
             /\ final_api' = api
             /\ result' = IF path = "finished" THEN finished_result(resp)
                          ELSE exhausted_result(resp)
    /\ sent_context' = context
    /\ n_final' = n_final + 1
    /\ last_call' = "final"
    /\ exit_path' = path
    /\ pc' = "returned"
    /\ UNCHANGED <<context, current_url, is_human_in_control, iteration, llm_response,
                   last_api, last_exec, dispatched, n_obs, n_llm, n_dispatch, aborted>>
    /\ UNCHANGED <<handoffVars, envVars, studyVars, mainVars, regVars>>

FinishedFinal == pc = "final" /\ FinalCall("finished")

ExhaustedFinal == pc = "loop" /\ ~LoopContinues(iteration) /\ FinalCall("exhausted")

\* run after execute returned `text`: the tool-result entry and the reset
\* of the handoff flag
AfterExecute(name, text) ==
    /\ context' = Append(context, ToolResultEntry(text))
    /\ is_human_in_control' = IF name = HandoffTool THEN FALSE ELSE is_human_in_control
    /\ pc' = "sleep"

\* mutant: the handoff does not test its browser handle
EntersHandoff_unchecked(call) ==
    /\ call.name = HandoffTool
    /\ Registered(tools, call.name)
    /\ Binds(call.name, call)

\* the handoff capability reaches its wait for the operator
EntersHandoff(call) ==
    /\ call.name = HandoffTool
    /\ Registered(tools, call.name)
    /\ Binds(call.name, call)
    /\ handoff_browser

\* the dispatch of a call that does not wait for the operator
Dispatch ==
    /\ pc = "dispatch"
    /\ LET call == CallOf(llm_response.tool_call)
       IN  /\ ~EntersHandoff(call)
           /\ \E outcome \in IF call.name = HandoffTool
                             THEN {[kind |-> "other", val |-> HandoffNoBrowser]}
                             ELSE CapOutcomes,
                 loc \in Locations :
                LET ex == execute(tools, call, outcome)
                IN  /\ last_exec' = [call |-> call, outcome |-> outcome, ex |-> ex]
                    /\ browser_url' = IF ex.invoked /\ call.name # HandoffTool
                                      THEN loc ELSE browser_url
                    /\ IF ex.raised
                       THEN /\ pc' = "raised"
                            /\ exit_path' = "raised"
                            /\ UNCHANGED <<context, is_human_in_control>>
                       ELSE /\ AfterExecute(call.name, ex.text)
                            /\ UNCHANGED exit_path
    /\ n_dispatch' = n_dispatch + 1
    /\ dispatched' = TRUE
    /\ last_call' = "execute"
    /\ UNCHANGED <<current_url, iteration, llm_response, final_response, result,
                   sent_context, last_api, final_api, n_obs, n_llm, n_final, aborted>>
    /\ UNCHANGED <<handoffVars, tools, handoff_browser, studyVars, mainVars, regVars>>

\* the dispatch of the handoff up to its first prompt
HandoffEnter ==
    /\ pc = "dispatch"
    /\ EntersHandoff(CallOf(llm_response.tool_call))
    /\ h_current_url' = browser_url
    /\ h_shots' = Append(h_shots, "before")
    /\ h_user_input' = ""
    /\ h_reprompted' = FALSE
    /\ pc' = "awaiting"
    /\ n_dispatch' = n_dispatch + 1
    /\ dispatched' = TRUE
    /\ last_call' = "execute"
    /\ UNCHANGED <<context, current_url, is_human_in_control, iteration, llm_response,
                   final_response, result, exit_path, sent_context, last_api, final_api, last_exec,
                   n_obs, n_llm, n_final, aborted>>
    /\ UNCHANGED <<envVars, studyVars, mainVars, regVars>>

\* the operator uses the browser while the handoff waits
OperatorBrowse ==
    /\ pc = "awaiting"
    /\ \E loc \in Locations : loc # browser_url /\ browser_url' = loc
    /\ UNCHANGED <<agentVars, handoffVars, tools, handoff_browser, histVars, studyVars, mainVars, regVars>>

\* one line of operator input; an input that ends the wait (or EOF) makes
\* the handoff return, execute format the value and run record it
OperatorInput ==
    /\ pc = "awaiting"
    /\ \E inp \in OperatorInputs :
         /\ h_user_input' = inp
         /\ IF inp # "<EOF>" /\ StillWaiting(inp)
            THEN /\ h_reprompted' = TRUE
                 /\ UNCHANGED <<context, is_human_in_control, pc, h_shots, aborted, last_exec>>
            ELSE LET call    == CallOf(llm_response.tool_call)
                     outcome == [kind |-> "other",
                                 val |-> HandoffReturn(inp, h_current_url, browser_url)]
                     ex      == execute(tools, call, outcome)
                 IN  /\ AfterExecute(call.name, ex.text)
                     /\ last_exec' = [call |-> call, outcome |-> outcome, ex |-> ex]
                     /\ h_shots' = IF inp # "<EOF>" /\ Lower(inp) = "done"
                                   THEN Append(h_shots, "after") ELSE h_shots
                     /\ aborted' = (aborted \/ (inp # "<EOF>" /\ Lower(inp) = "abort"))
                     /\ UNCHANGED h_reprompted
    /\ UNCHANGED <<current_url, iteration, llm_response, final_response, result,
                   exit_path, sent_context, last_api, final_api, dispatched, n_obs, n_llm, n_final,
                   n_dispatch, last_call, h_current_url>>
    /\ UNCHANGED <<envVars, studyVars, mainVars, regVars>>

\* mutant: the next turn starts at its model call, with no observation
Sleep_skipObserve ==
    /\ pc = "sleep"
    /\ iteration' = iteration + 1
    /\ pc' = IF LoopContinues(iteration + 1) THEN "model" ELSE "loop"
    /\ UNCHANGED <<context, current_url, is_human_in_control, llm_response,
                   final_response, result, exit_path>>
    /\ UNCHANGED <<handoffVars, envVars, histVars, studyVars, mainVars, regVars>>

\* the pacing delay that ends a turn
Sleep ==
    /\ pc = "sleep"
    /\ iteration' = iteration + 1
    /\ pc' = "loop"
    /\ UNCHANGED <<context, current_url, is_human_in_control, llm_response,
                   final_response, result, exit_path>>
    /\ UNCHANGED <<handoffVars, envVars, histVars, studyVars, mainVars, regVars>>

NoCallIn == [name |-> NoneVal, mapping |-> FALSE, keys |-> {}]
NoOutcome == [kind |-> "raise", val |-> <<>>]
NoExec == [raised |-> FALSE, invoked |-> FALSE, text |-> <<>>]

\* main() is not under study: the agent is constructed, its sessions open
MainOff ==
    /\ main_pc = "off"
    /\ main_exc = FALSE
    /\ browser_open = TRUE
    /\ session_open = TRUE

RegIdle ==
    /\ reg_log = <<>>
    /\ defs_out = <<>>
    /\ defs_prev = <<>>
    /\ n_gets = 0

\* the state of a new MainAgent, apart from its registry, at position `at`
AgentNew(at) ==
    /\ context = <<>>
    /\ current_url = ""
    /\ is_human_in_control = FALSE
    /\ iteration = 0
    /\ pc = at
    /\ llm_response = NoResponse
    /\ final_response = NoResponse
    /\ result = <<>>
    /\ exit_path = "none"
    /\ h_current_url = ""
    /\ h_user_input = ""
    /\ h_shots = <<>>
    /\ h_reprompted = FALSE
    /\ sent_context = <<>>
    /\ last_api = ApiFail
    /\ final_api = ApiFail
    /\ last_exec = [call |-> NoCallIn, outcome |-> NoOutcome, ex |-> NoExec]
    /\ dispatched = FALSE
    /\ n_obs = 0 /\ n_llm = 0 /\ n_final = 0 /\ n_dispatch = 0
    /\ last_call = "none"
    /\ aborted = FALSE

\* the state of a new MainAgent after initialize, at position `at`
AgentInit(at) ==
    /\ tools = RegisterAll(<<>>, Registrations)
    /\ AgentNew(at)
    /\ MainOff
    /\ RegIdle

StudyIdle ==
    /\ interp_in = [api |-> ApiFail, is_final |-> FALSE]
    /\ interp_out = NoResponse
    /\ exec_in = [call |-> NoCallIn, outcome |-> NoOutcome]
    /\ exec_out = NoExec

Init ==
    /\ AgentInit("loop")
    /\ browser_url \in Locations
    /\ handoff_browser \in BOOLEAN
    /\ StudyIdle

Next ==
    \/ Observe
    \/ ObserveFault
    \/ ModelCall
    \/ FinishedFinal
    \/ ExhaustedFinal
    \/ Dispatch
    \/ HandoffEnter
    \/ OperatorBrowse
    \/ OperatorInput
    \/ Sleep

Spec == Init /\ [][Next]_vars

----------------------------------------------------------------------------
(* Study of generate_response on every reply built from a few segments *)

\* what may stand between the markers of a block
Payloads == {<<j>> : j \in JsonTexts} \cup {<<>>, <<TXT>>, <<WS, "j_nav", WS>>,
                                            <<"j_nav", TXT>>}

Segments == {<<OPEN>> \o p \o <<CLOSE>> : p \in Payloads}
            \cup {<<TXT>>, <<WS>>, <<DONE>>, <<OPEN>>, <<CLOSE>>}

RECURSIVE RepliesUpTo(_)
RepliesUpTo(n) ==
    IF n = 0 THEN {<<>>}
    ELSE LET prev == RepliesUpTo(n - 1)
         IN  prev \cup {r \o sg : r \in prev, sg \in Segments}

InitInterp ==
    /\ AgentInit("idle")
    /\ browser_url = "u0"
    /\ handoff_browser = FALSE
    /\ interp_in \in [api : {ApiOk(r) : r \in RepliesUpTo(MaxSegments)} \cup {ApiFail},
                      is_final : BOOLEAN]
    /\ interp_out = NoResponse
    /\ exec_in = [call |-> NoCallIn, outcome |-> NoOutcome]
    /\ exec_out = NoExec

Interpret ==
    /\ pc = "idle"
    /\ interp_out' = generate_response(interp_in.api, interp_in.is_final)
    /\ pc' = "interpreted"
    /\ UNCHANGED <<context, current_url, is_human_in_control, iteration, llm_response,
                   final_response, result, exit_path>>
    /\ UNCHANGED <<handoffVars, envVars, histVars, interp_in, exec_in, exec_out,
                   mainVars, regVars>>

NextInterp == Interpret

SpecInterp == InitInterp /\ [][NextInterp]_vars

----------------------------------------------------------------------------
(* Study of execute on results around the length ceiling *)

\* a string of n characters whose characters depend on their position
StringOf(n) ==
    [i \in 1..n |-> IF i = 1 THEN "h" ELSE IF i % 2 = 0 THEN "a" ELSE "b"]

ResultLengths == {0, 1, MaxResultLen - 1} \cup (MaxResultLen..(MaxResultLen + MaxExtra))

StudyOutcomes ==
    {[kind |-> "str", val |-> StringOf(n)] : n \in ResultLengths}
    \cup {[kind |-> "other", val |-> StringOf(n)] :
             n \in {1, MaxResultLen + 1, MaxResultLen + MarkLen + MaxExtra}}
    \cup {[kind |-> "raise", val |-> <<"boom">>],
          [kind |-> "raise", val |-> StringOf(MaxResultLen + MarkLen + MaxExtra)]}

StudyCalls ==
    [name : {"go_to_url", HandoffTool, "no_such_tool", NoneVal, ListVal},
     mapping : BOOLEAN,
     keys : {{}, {"url"}, {"reason"}, {"bogus"}}]

InitExec ==
    /\ AgentInit("idle")
    /\ browser_url = "u0"
    /\ handoff_browser = FALSE
    /\ interp_in = [api |-> ApiFail, is_final |-> FALSE]
    /\ interp_out = NoResponse
    /\ exec_in \in [call : StudyCalls, outcome : StudyOutcomes]
    /\ exec_out = NoExec

Execute ==
    /\ pc = "idle"
    /\ exec_out' = execute(tools, exec_in.call, exec_in.outcome)
    /\ pc' = "executed"
    /\ UNCHANGED <<context, current_url, is_human_in_control, iteration, llm_response,
                   final_response, result, exit_path>>
    /\ UNCHANGED <<handoffVars, envVars, histVars, interp_in, interp_out, exec_in,
                   mainVars, regVars>>

NextExec == Execute

SpecExec == InitExec /\ [][NextExec]_vars

----------------------------------------------------------------------------
(* Claims C1 - C10 *)

\* the last entry of the log
LastEntry == context[Len(context)]

\* C1: once the operator has answered abort in a handoff, run makes no
\* further observation, model call or dispatch (its latest collaborator
\* call stays the dispatch that ran the handoff), and what it returns is
\* the aborted notice.
C1_AbortEndsTask ==
    aborted => /\ last_call = "execute"
               /\ pc = "returned" => Contains(result, AbortMsg)

\* C2: a run takes at most max_iterations observations and as many
\* non-final model calls, one per turn; it makes at most one final-summary
\* call, which is its last call; a run that ends by exhaustion has made
\* exactly max_iterations turns and one final call, so no run makes more
\* than max_iterations + 1 model calls; and once max_iterations turns are
\* complete the only step run takes is that final call, which returns.
C2_Counts ==
    /\ n_obs <= MaxIterations
    /\ n_llm <= n_obs /\ n_obs <= n_llm + 1
    /\ n_final <= 1
    /\ n_llm + n_final <= MaxIterations + 1
    /\ n_final = 1 => pc = "returned" /\ last_call = "final"
    /\ exit_path = "exhausted" =>
          n_obs = MaxIterations /\ n_llm = MaxIterations /\ n_final = 1 /\ pc = "returned"

C2_IterationBound ==
    /\ []C2_Counts
    /\ [][(pc = "loop" /\ iteration >= MaxIterations) =>
             (pc' = "returned" /\ exit_path' = "exhausted" /\ n_final' = 1
              /\ n_llm' = n_llm /\ n_obs' = n_obs)]_vars

C2_Witness ==
    pc = "returned" /\ exit_path = "exhausted" /\ n_llm = MaxIterations /\ n_final = 1

\* C3: the text returned after iteration exhaustion carries the
\* iteration-exhausted notice, and it is not the text a finished run
\* returns for the same final-summary reply.
C3_OutcomesDistinguishable ==
    (pc = "returned" /\ exit_path = "exhausted") =>
        /\ Contains(result, ExhaustedFallback)
        /\ result # finished_result(final_response)

\* C4: in a turn whose planner response has is_finished true, run
\* dispatches nothing, makes one final-summary call over the whole log and
\* returns the text of that call (the fixed notice when the text is
\* empty), also when the response carries a tool call object.
C4_FinishedShortCircuits ==
    llm_response.is_finished =>
        /\ pc \in {"final", "returned"}
        /\ ~dispatched
        /\ pc = "final" => n_final = 0
        /\ pc = "returned" =>
              /\ exit_path = "finished"
              /\ n_final = 1 /\ last_call = "final"
              /\ sent_context = context
              /\ final_response.content # <<>> => result = final_response.content
              /\ final_response.content = <<>> => result = <<FinishedFallback>>

C4_Witness ==
    /\ pc = "returned" /\ exit_path = "finished"
    /\ llm_response.is_finished /\ llm_response.tool_call # NoCall
    /\ result = <<TXT>>

\* some opening marker is followed by some closing marker
HasBlock(s) == \E i, j \in 1..Len(s) : i < j /\ s[i] = OPEN /\ s[j] = CLOSE

\* the JSON texts that are objects with at least one key
NonEmptyObjectTexts ==
    {j \in JsonTexts : JsonValue(j).jtype = "object" /\ JsonValue(j).nkeys > 0}

\* the text between the first opening marker and the first closing marker
\* behind it is, up to surrounding whitespace, the one token j
FirstBlockIs(s, j) ==
    \E o, c \in 1..Len(s) :
        /\ s[o] = OPEN /\ \A i \in 1..(o-1) : s[i] # OPEN
        /\ s[c] = CLOSE /\ \A i \in 1..(c-1) : s[i] # CLOSE
        /\ o < c
        /\ \E k \in (o+1)..(c-1) :
              /\ s[k] = j
              /\ \A i \in ((o+1)..(c-1)) \ {k} : s[i] = WS

\* C5 as stated: for a non-final reply with a block and the completion
\* phrase, is_finished is false and tool_call is not None, whatever the
\* payload of the block.
C5_InvocationAlwaysWins ==
    (pc = "interpreted" /\ interp_in.api.ok /\ ~interp_in.is_final
     /\ HasBlock(interp_in.api.content) /\ Contains(interp_in.api.content, DONE))
    => (~interp_out.is_finished /\ interp_out.tool_call # NoCall)

\* C5 amended: for a non-final reply whose first block holds a JSON object
\* with at least one key, is_finished is false and tool_call is that
\* object, wherever the completion phrase stands in the reply.
C5_ParsedInvocationWins ==
    \A j \in NonEmptyObjectTexts :
        (pc = "interpreted" /\ interp_in.api.ok /\ ~interp_in.is_final
         /\ FirstBlockIs(interp_in.api.content, j))
        => (~interp_out.is_finished /\ interp_out.tool_call = JsonValue(j))

C5_Witness ==
    /\ pc = "interpreted" /\ interp_in.api.ok /\ ~interp_in.is_final
    /\ FirstBlockIs(interp_in.api.content, "j_nav")
    /\ Contains(interp_in.api.content, DONE)
    /\ interp_out.tool_call = JsonValue("j_nav")

\* two blocks, one behind the other
MultiBlock(s) ==
    \E i, j, k, l \in 1..Len(s) :
        i < j /\ j < k /\ k < l /\ s[i] = OPEN /\ s[j] = CLOSE /\ s[k] = OPEN /\ s[l] = CLOSE

\* the turn's model call was made with a reply of more than one block
MultiBlockTurn ==
    n_llm > 0 /\ pc # "model" /\ last_api.ok /\ MultiBlock(last_api.content)

\* C6: in a turn whose reply has more than one block, the tool call is
\* the payload of the first block or None (the first block's payload when
\* that is a usable call), the only call dispatched is that one, a later
\* block makes neither the interpreter nor run fail, and no turn
\* dispatches more than once.
C6_OnlyFirstBlock ==
    /\ n_dispatch <= n_llm
    /\ MultiBlockTurn =>
        /\ \/ llm_response.tool_call = NoCall
           \/ \E j \in JsonTexts : /\ FirstBlockIs(last_api.content, j)
                                   /\ llm_response.tool_call = JsonValue(j)
        /\ \A j \in NonEmptyObjectTexts :
              FirstBlockIs(last_api.content, j) => llm_response.tool_call = JsonValue(j)
        /\ (dispatched \/ pc \in {"dispatch", "awaiting"}) => Truthy(llm_response.tool_call)
        /\ (dispatched /\ pc # "awaiting") =>
              last_exec.call = CallOf(llm_response.tool_call)
        /\ (llm_response.content # <<>> /\ llm_response.content[1] = ErrPrefix) =>
              \E j \in JsonTexts : /\ FirstBlockIs(last_api.content, j)
                                   /\ ~ValidToolCall(JsonValue(j))
        /\ exit_path = "raised" =>
              \/ last_call = "observe"
              \/ \E j \in JsonTexts : /\ FirstBlockIs(last_api.content, j)
                                      /\ JsonValue(j).name = ListVal

C6_Witness ==
    /\ MultiBlockTurn /\ dispatched /\ pc = "sleep"
    /\ last_api.content = <<OPEN, "j_unknown", CLOSE, OPEN, "j_nav", CLOSE>>
    /\ last_exec.call.name = "no_such_tool"

\* the payload of the reply's first block is structurally invalid: it is
\* no JSON text, or no object, or an object without the name key
InvalidFirstPayload(s) ==
    /\ HasBlock(s)
    /\ \A j \in JsonTexts :
          FirstBlockIs(s, j) =>
              (JsonValue(j).jtype # "object" \/ JsonValue(j).name = NoneVal)

\* C7: after the model call of a turn whose reply has a structurally
\* invalid payload (and no completion phrase), tool_call is None, the
\* content is the raw reply, nothing is dispatched and the turn takes the
\* re-prompt path.
C7_InvalidPayloadDegrades ==
    (n_llm > 0 /\ pc # "model" /\ last_api.ok
     /\ InvalidFirstPayload(last_api.content) /\ ~Contains(last_api.content, DONE))
    => /\ llm_response.tool_call = NoCall
       /\ llm_response.content = last_api.content
       /\ ~dispatched
       /\ pc \in {"sleep", "loop", "returned"}
       /\ last_call = "model" => LastEntry = RepromptEntry

\* the turn's dispatch has returned or raised
DispatchDone == dispatched /\ pc # "awaiting"

\* C8: a dispatch under a name that is not registered does not raise and
\* invokes no capability; its result is a failure string that holds the
\* name, it is the turn's tool-result entry, and the loop goes on.
C8_UnknownToolIsData ==
    (DispatchDone /\ ~Registered(tools, last_exec.call.name)) =>
        /\ ~last_exec.ex.raised
        /\ ~last_exec.ex.invoked
        /\ Contains(last_exec.ex.text, StrOf(last_exec.call.name))
        /\ exit_path # "raised"
        /\ pc \in {"sleep", "loop", "returned"}
        /\ LastEntry = ToolResultEntry(last_exec.ex.text)

\* the latest dispatch was of a registered capability that failed: it
\* raised, or the call did not bind to its parameters
CapabilityFailed ==
    /\ DispatchDone
    /\ Registered(tools, last_exec.call.name)
    /\ (last_exec.outcome.kind = "raise" \/ ~Binds(last_exec.call.name, last_exec.call))

\* C9: when a registered capability fails, execute does not raise: it
\* returns the failure text that starts with the capability's name and
\* ends with the error's text, run appends it as the tool-result entry and
\* goes on to the next turn.
C9_CapabilityFaultContained ==
    CapabilityFailed =>
        /\ ~last_exec.ex.raised
        /\ Len(last_exec.ex.text) > 3
        /\ SubSeq(last_exec.ex.text, 1, 3)
             = <<"tool '", last_exec.call.name, "' failed: ">>
        /\ last_exec.ex.invoked =>
             SubSeq(last_exec.ex.text, 4, Len(last_exec.ex.text)) = last_exec.outcome.val
        /\ exit_path # "raised"
        /\ pc \in {"sleep", "loop", "returned"}
        /\ last_call = "execute" => LastEntry = ToolResultEntry(last_exec.ex.text)

C9_Witness ==
    /\ CapabilityFailed /\ last_exec.ex.invoked
    /\ last_exec.outcome.kind = "raise"
    /\ pc = "loop" /\ iteration = 1

\* the study's call reached a registered capability, which returned a string
ReturnedString ==
    /\ pc = "executed"
    /\ exec_in.call.name # ListVal
    /\ Registered(tools, exec_in.call.name)
    /\ Binds(exec_in.call.name, exec_in.call)
    /\ exec_in.outcome.kind = "str"

\* C10: for a capability result string longer than 2000 characters,
\* execute returns the success prefix followed by exactly the first 2000
\* characters of the string and the truncation marker; a string of 2000
\* characters or fewer follows the prefix unchanged.
C10_Truncation ==
    ReturnedString =>
        LET val  == exec_in.outcome.val
            body == SubSeq(exec_out.text, 4, Len(exec_out.text))
        IN  /\ ~exec_out.raised
            /\ SubSeq(exec_out.text, 1, 3)
                 = <<"tool '", exec_in.call.name, "' succeeded: ">>
            /\ Len(val) > 2000 =>
                  /\ Len(body) = 2001
                  /\ \A i \in 1..2000 : body[i] = val[i]
                  /\ body[2001] = TruncMark
            /\ Len(val) <= 2000 => body = val

C10_Witness ==
    /\ ReturnedString
    /\ Len(exec_in.outcome.val) = 2001
    /\ Len(exec_out.text) = 2004
    /\ exec_out.text[2004] = TruncMark

----------------------------------------------------------------------------
(* main(): the agent is constructed, initialized and run, and shut down   *)
(* in the finally clause.  browser.start and browser.stop are awaitables   *)
(* that return or raise.                                                   *)

\* the planner replies of the study of main()
MainReplies ==
    { <<TXT>>,
      <<TXT, DONE>>,
      <<TXT, OPEN, "j_nav", CLOSE>>,
      <<OPEN, "j_handoff", CLOSE>>,
      <<OPEN, "j_listname", CLOSE>> }

\* after MainAgent(task): both sessions are open, nothing is registered
InitMain ==
    /\ tools = <<>>
    /\ AgentNew("idle")
    /\ main_pc = "initialize"
    /\ main_exc = FALSE
    /\ browser_open = TRUE
    /\ session_open = TRUE
    /\ browser_url \in Locations
    /\ handoff_browser \in BOOLEAN
    /\ StudyIdle
    /\ RegIdle

\* await agent.initialize() returns: the tools are registered, run starts
Initialize ==
    /\ main_pc = "initialize"
    /\ tools' = RegisterAll(tools, Registrations)
    /\ main_pc' = "run"
    /\ pc' = "loop"
    /\ UNCHANGED <<context, current_url, is_human_in_control, iteration, llm_response,
                   final_response, result, exit_path>>
    /\ UNCHANGED <<main_exc, browser_open, session_open, browser_url, handoff_browser>>
    /\ UNCHANGED <<handoffVars, histVars, studyVars, regVars>>

\* await agent.initialize() raises: control goes to the finally clause
InitializeFault ==
    /\ main_pc = "initialize"
    /\ main_pc' = "stop"
    /\ main_exc' = TRUE
    /\ UNCHANGED <<browser_open, session_open>>
    /\ UNCHANGED <<agentVars, handoffVars, envVars, histVars, studyVars, regVars>>

\* mutant: shutdown follows the print, with no finally clause
RunEnds_noFinally ==
    /\ main_pc = "run"
    /\ pc = "returned"
    /\ main_pc' = "stop"
    /\ main_exc' = FALSE
    /\ UNCHANGED <<browser_open, session_open>>
    /\ UNCHANGED <<agentVars, handoffVars, envVars, histVars, studyVars, regVars>>

\* run returned (the result is printed) or raised: the finally clause
RunEnds ==
    /\ main_pc = "run"
    /\ pc \in {"returned", "raised"}
    /\ main_pc' = "stop"
    /\ main_exc' = (pc = "raised")
    /\ UNCHANGED <<browser_open, session_open>>
    /\ UNCHANGED <<agentVars, handoffVars, envVars, histVars, studyVars, regVars>>

\* shutdown: await self.browser.stop() returns
BrowserStop ==
    /\ main_pc = "stop"
    /\ browser_open' = FALSE
    /\ main_pc' = "close"
    /\ UNCHANGED <<main_exc, session_open>>
    /\ UNCHANGED <<agentVars, handoffVars, envVars, histVars, studyVars, regVars>>

\* shutdown: await self.browser.stop() raises, and so do shutdown and main
BrowserStopFault ==
    /\ main_pc = "stop"
    /\ browser_open' \in BOOLEAN
    /\ main_pc' = "exited"
    /\ main_exc' = TRUE
    /\ UNCHANGED session_open
    /\ UNCHANGED <<agentVars, handoffVars, envVars, histVars, studyVars, regVars>>

\* shutdown: await self.llm_client.close(), then main ends
LlmClose ==
    /\ main_pc = "close"
    /\ session_open' = FALSE
    /\ main_pc' = "exited"
    /\ UNCHANGED <<main_exc, browser_open>>
    /\ UNCHANGED <<agentVars, handoffVars, envVars, histVars, studyVars, regVars>>

\* the turn's model call, with the replies of this study
MainModelCall == ModelCall /\ (last_api'.ok => last_api'.content \in MainReplies)

NextMain ==
    \/ Initialize
    \/ InitializeFault
    \/ Observe
    \/ ObserveFault
    \/ MainModelCall
    \/ FinishedFinal
    \/ ExhaustedFinal
    \/ Dispatch
    \/ HandoffEnter
    \/ OperatorBrowse
    \/ OperatorInput
    \/ Sleep
    \/ RunEnds
    \/ BrowserStop
    \/ BrowserStopFault
    \/ LlmClose

SpecMain == InitMain /\ [][NextMain]_vars

-----------------------------------------------------------------------------
(* The registry under study: register_tool and get_tool_definitions called *)
(* in any order on a new ToolExecutor.                                     *)

MaxRegs == 3

\* what a registration may give with a name
RegVersions ==
    { [func |-> "f_1", description |-> "d_1", keys |-> {}],
      [func |-> "f_2", description |-> "d_1", keys |-> {}],
      [func |-> "f_1", description |-> "d_2", keys |-> {"url"}],
      [func |-> "f_2", description |-> "d_2", keys |-> {"url"}] }

RegEntries ==
    { [name |-> n, func |-> v.func, description |-> v.description, keys |-> v.keys] :
        n \in {"go_to_url", "back", HandoffTool}, v \in RegVersions }

InitReg ==
    /\ tools = <<>>
    /\ AgentNew("idle")
    /\ MainOff
    /\ browser_url = "u0"
    /\ handoff_browser = FALSE
    /\ StudyIdle
    /\ RegIdle

Register ==
    /\ pc = "idle"
    /\ Len(reg_log) < MaxRegs
    /\ \E entry \in RegEntries :
         /\ tools' = register_tool(tools, entry)
         /\ reg_log' = Append(reg_log, entry)
    /\ n_gets' = 0
    /\ UNCHANGED <<defs_out, defs_prev, browser_url, handoff_browser>>
    /\ UNCHANGED <<agentVars, handoffVars, histVars, studyVars, mainVars>>

GetDefinitions ==
    /\ pc = "idle"
    /\ defs_prev' = defs_out
    /\ defs_out' = get_tool_definitions(tools)
    /\ n_gets' = IF n_gets < 2 THEN n_gets + 1 ELSE 2
    /\ UNCHANGED reg_log
    /\ UNCHANGED <<agentVars, handoffVars, envVars, histVars, studyVars, mainVars>>

NextReg == Register \/ GetDefinitions

SpecReg == InitReg /\ [][NextReg]_vars

-----------------------------------------------------------------------------
(* Claims C11 - C20 *)

\* the number of characters of a text, a fragment of a format string
\* counting as one
CharLen(text) ==
    Len(text) + (MarkLen - 1) * Cardinality({i \in 1..Len(text) : text[i] = TruncMark})

\* C11: whatever the capability returned or raised, the text execute
\* returns (the tool-result entry of the log) is no longer than the name
\* prefix, 2000 characters and the truncation marker.
C11_ResultBounded ==
    (pc = "executed" /\ ~exec_out.raised) => CharLen(exec_out.text) <= 3 + 2000 + 11

\* C12: the log is append-only: every step of a run leaves the log as it
\* is or extends it at the end, so its length never decreases and no entry
\* changes its position, role or content.
C12_AppendOnly ==
    [][/\ Len(context') >= Len(context)
       /\ SubSeq(context', 1, Len(context)) = context]_vars

C12_Witness ==
    /\ pc = "returned" /\ Len(context) >= 5
    /\ \E i \in 1..Len(context) : context[i].role = "assistant"
    /\ \E i \in 1..Len(context) : context[i] = RepromptEntry
    /\ \E i \in 1..Len(context) : context[i].content[1] = "tool result: "

\* the turn's model call has been made and the backend failed in it
BackendFailedTurn == n_llm > 0 /\ pc # "model" /\ ~last_api.ok

\* the planner entries of the log that hold a backend error
ErrorEntries ==
    {i \in 1..Len(context) :
        context[i].role = "assistant" /\ context[i].content[1] = ErrPrefix}

\* C13: a failure of the backend in a non-final call gives a response
\* whose content is the error description, with no tool call and not
\* finished; run records it in the log, re-prompts and goes on to the next
\* turn (it neither raises nor returns because of it), so a run whose
\* backend always fails ends by exhaustion after max_iterations turns.
C13_BackendFaultContained ==
    BackendFailedTurn =>
        /\ llm_response.content = <<ErrPrefix, last_api.err>>
        /\ llm_response.tool_call = NoCall
        /\ ~llm_response.is_finished
        /\ ~dispatched
        /\ pc \in {"sleep", "loop", "returned", "raised"}
        /\ pc = "returned" => exit_path = "exhausted"
        /\ pc = "raised" => last_call = "observe"
        /\ last_call = "model" =>
              /\ Len(context) >= 2
              /\ context[Len(context) - 1] = PlannerEntry(llm_response.content)
              /\ LastEntry = RepromptEntry
              /\ pc \in {"sleep", "loop"}

C13_Witness ==
    /\ pc = "returned" /\ exit_path = "exhausted"
    /\ BackendFailedTurn
    /\ Cardinality(ErrorEntries) = MaxIterations
    /\ final_response.content = <<ErrPrefix, "api failure">>

\* C14: run ends before max_iterations turns only through a finished
\* signal or an operator abort, and no capability fault, unknown
\* capability, malformed planner output or backend fault makes it exit
\* without a result (the only exception it may exit with is one raised
\* by the browser during the observation).
C14_OnlyFinishOrAbortEndsEarly ==
    /\ (pc = "returned" /\ n_obs < MaxIterations) => (exit_path = "finished" \/ aborted)
    /\ pc = "returned" => result # <<>>
    /\ pc = "raised" => last_call = "observe"

\* the turn's model call returned a response without a usable tool call
\* that is not finished
ProseTurn ==
    /\ n_llm > 0 /\ pc # "model"
    /\ ~llm_response.is_finished
    /\ ~Truthy(llm_response.tool_call)

\* C15: in a turn whose response has no tool call and is not finished,
\* nothing is dispatched, the log sent to the planner is extended by the
\* planner entry (if the content is not empty) and exactly one
\* operator-prompt entry, and the turn counts: run goes on to the next
\* iteration.
C15_Reprompt ==
    ProseTurn =>
        /\ ~dispatched
        /\ pc \in {"sleep", "loop", "returned", "raised"}
        /\ pc = "returned" => exit_path = "exhausted"
        /\ pc = "raised" => last_call = "observe"
        /\ last_call = "model" =>
              /\ pc \in {"sleep", "loop"}
              /\ context = RecordThought(sent_context, llm_response) \o <<RepromptEntry>>
              /\ Cardinality({i \in (Len(sent_context) + 1)..Len(context) :
                                 context[i].role = "user"}) = 1
              /\ pc = "loop" => iteration = n_llm

C15_Witness ==
    /\ ProseTurn /\ last_call = "model" /\ pc = "loop" /\ iteration = 1
    /\ last_api.ok /\ last_api.content = <<TXT>>
    /\ LastEntry = RepromptEntry

\* the tool-result entry run appends for a handoff that returned `value`
HandoffEntry(value) ==
    ToolResultEntry(SuccessText(HandoffTool, value))

C17_FlagTrueWhileAwaiting == is_human_in_control <=> (pc = "awaiting")

\* the latest call of execute was a handoff that got to its wait and ended
HandoffEnded ==
    /\ pc # "awaiting"
    /\ last_exec.call.name = HandoffTool
    /\ last_exec.ex.invoked
    /\ last_exec.outcome.val # HandoffNoBrowser

\* C19 as stated: every handoff that got to its wait and ended returned
\* the resumed or the aborted outcome.
C19_TwoOutcomes ==
    HandoffEnded =>
        \E before, now \in Locations :
            last_exec.outcome.val \in {HandoffResumed(before, now), HandoffAborted(now)}

\* C19, amended: a handoff that got to its wait ends in exactly one of
\* three outcomes that follows from the operator's input: done gives
\* resumed, abort gives aborted and the end of the input gives the
\* failure outcome; and while it waits no new turn of run begins (no
\* observation, no model call, no dispatch, the same iteration).
C19_ThreeOutcomes ==
    /\ [](HandoffEnded =>
            \E now \in Locations :
               \/ /\ Lower(h_user_input) = "done"
                  /\ last_exec.outcome.val = HandoffResumed(h_current_url, now)
               \/ /\ Lower(h_user_input) = "abort"
                  /\ last_exec.outcome.val = HandoffAborted(now)
               \/ /\ h_user_input = "<EOF>"
                  /\ last_exec.outcome.val = HandoffFailed(now))
    /\ [][pc = "awaiting" =>
            /\ pc' \in {"awaiting", "sleep"}
            /\ UNCHANGED <<iteration, n_obs, n_llm, n_final, n_dispatch, llm_response>>]_vars

C19_Witness ==
    /\ HandoffEnded /\ pc = "sleep"
    /\ h_user_input = "<EOF>"
    /\ last_exec.outcome.val = HandoffFailed(browser_url)
    /\ LastEntry = HandoffEntry(HandoffFailed(browser_url))

\* C18: when main has ended, on whichever path, the actuator session and
\* the backend's session are both closed.
C18_BothClosed ==
    main_pc = "exited" => (~browser_open /\ ~session_open)

\* the names of the register_tool calls, each at its first registration
RECURSIVE FirstRegistered(_)
FirstRegistered(log) ==
    IF log = <<>> THEN <<>>
    ELSE LET before == FirstRegistered(SubSeq(log, 1, Len(log) - 1))
             name   == log[Len(log)].name
         IN  IF \E i \in 1..Len(before) : before[i] = name
             THEN before ELSE Append(before, name)

\* the latest register_tool call made with the name
LatestRegistration(log, name) ==
    log[CHOOSE i \in 1..Len(log) :
            /\ log[i].name = name
            /\ \A j \in (i + 1)..Len(log) : log[j].name # name]

\* C20: get_tool_definitions lists the registered names in the order in
\* which they were first registered, each with the description and the
\* parameters of its latest registration, and a second call with no
\* register_tool call in between returns the same sequence.
C20_DefinitionsOrderedIdempotent ==
    /\ n_gets >= 1 =>
          /\ [i \in 1..Len(defs_out) |-> defs_out[i].name] = FirstRegistered(reg_log)
          /\ \A i \in 1..Len(defs_out) :
                LET e == LatestRegistration(reg_log, defs_out[i].name)
                IN  /\ defs_out[i].description = e.description
                    /\ defs_out[i].parameters = e.keys
    /\ n_gets >= 2 => defs_out = defs_prev

C20_Witness ==
    /\ n_gets = 2 /\ Len(reg_log) = 3 /\ Len(defs_out) = 2
    /\ defs_out = defs_prev
    /\ reg_log[3].name = reg_log[1].name
    /\ reg_log[3].description # reg_log[1].description
    /\ defs_out[1].name = reg_log[1].name
    /\ defs_out[1].description = reg_log[3].description

(* Claims C21 - C30 *)

\* C21: after any sequence of register_tool calls the registry has one
\* entry for each name registered and no other, and the entry of a name is
\* the one given at the latest registration of that name (so a
\* registration of one name changes the entry of no other name).
C21_LastRegistrationWins ==
    /\ \A i, j \in 1..Len(tools) : tools[i].name = tools[j].name => i = j
    /\ {tools[i].name : i \in 1..Len(tools)} = {reg_log[i].name : i \in 1..Len(reg_log)}
    /\ \A i \in 1..Len(tools) : tools[i] = LatestRegistration(reg_log, tools[i].name)

C21_Witness ==
    /\ Len(reg_log) = 3 /\ Len(tools) = 2
    /\ reg_log[1].name = reg_log[3].name
    /\ reg_log[1] # reg_log[3]
    /\ tools = <<reg_log[3], reg_log[2]>>

\* C22: the collaborator calls of a run are made one after the other and
\* turn by turn: a turn's observation is followed by its model call, the
\* model call by at most one dispatch, and the next observation is taken
\* only when the turn's calls have completed.
C22_StrictlySequential ==
    /\ n_llm <= n_obs /\ n_obs <= n_llm + 1
    /\ n_dispatch <= n_llm
    /\ n_final <= 1
    /\ pc = "model" => (n_obs = n_llm + 1 /\ n_obs = iteration + 1
                        /\ last_call = "observe" /\ ~dispatched)
    /\ pc \in {"dispatch", "final"} =>
          (n_obs = n_llm /\ n_llm = iteration + 1 /\ last_call = "model" /\ ~dispatched)
    /\ pc \in {"awaiting", "sleep"} =>
          (n_obs = n_llm /\ n_llm = iteration + 1 /\ last_call \in {"model", "execute"}
           /\ (dispatched <=> last_call = "execute"))
    /\ pc = "awaiting" => dispatched
    /\ pc = "loop" => (n_obs = iteration /\ n_llm = iteration)
    /\ n_final = 1 => pc = "returned"

C22_Witness ==
    /\ pc = "loop" /\ iteration = MaxIterations
    /\ n_obs = MaxIterations /\ n_llm = MaxIterations /\ n_dispatch = MaxIterations

\* the inputs at which the wait of a handoff ends
WaitEnders == {"done", "DONE", "abort", "Abort"}

\* C23 as stated: while a handoff waits, nothing but the operator's done or
\* abort ends the wait.
C23_OnlyDoneOrAbortEndsWait ==
    [][(pc = "awaiting" /\ pc' # "awaiting") => h_user_input' \in WaitEnders]_vars

\* C23, amended: from the moment a handoff waits until the operator enters
\* done or abort or the operator's input ends, run takes no observation,
\* makes no model call, dispatches nothing and appends nothing to the log;
\* nothing else ends the wait (there is no timeout), and the wait ends in
\* the pacing delay of the same turn.
C23_WaitSuspendsRun ==
    [][pc = "awaiting" =>
         /\ UNCHANGED <<n_obs, n_llm, n_final, n_dispatch, iteration, sent_context,
                        llm_response, current_url>>
         /\ pc' \in {"awaiting", "sleep"}
         /\ pc' = "awaiting" => UNCHANGED <<context, is_human_in_control, result>>
         /\ pc' = "sleep" => h_user_input' \in WaitEnders \cup {"<EOF>"}
         /\ h_user_input' \notin WaitEnders \cup {"<EOF>"} => pc' = "awaiting"]_vars

C23_Witness ==
    /\ pc = "awaiting" /\ h_reprompted /\ h_user_input = "what?"
    /\ browser_url # h_current_url
    /\ n_obs = 1 /\ n_llm = 1 /\ n_dispatch = 1
    /\ context = sent_context

\* C24: current_url changes only in the observation that starts a turn,
\* and after every observation it is the actuator's location at that
\* moment, which is also the location the observation entry shows: a
\* location changed by a dispatch in one turn is what the next turn's
\* observation and current_url hold.
C24_UrlRefreshedAtObservation ==
    /\ [](pc = "model" =>
            /\ current_url = browser_url
            /\ LastEntry = ObservationEntry(browser_url, is_human_in_control))
    /\ [][current_url' # current_url => (pc = "loop" /\ pc' = "model")]_vars

C24_Witness ==
    /\ pc = "model" /\ n_obs = 2
    /\ last_exec.ex.invoked /\ last_exec.call.name = "go_to_url"
    /\ current_url = browser_url
    /\ context[1] = ObservationEntry(CHOOSE l \in Locations : l # browser_url, FALSE)
    /\ LastEntry = ObservationEntry(browser_url, FALSE)

IsObservationEntry(e) == e.role = "system" /\ e.content[1] = "observation: "
IsPlannerEntry(e) == e.role = "assistant" /\ e.content # <<>>
IsToolResultEntry(e) == e.role = "system" /\ e.content[1] = "tool result: "
IsClosingEntry(e) == IsToolResultEntry(e) \/ e = RepromptEntry

\* the log is a sequence of complete turns: an observation entry, at most
\* one planner entry, one tool-result or operator-prompt entry
RECURSIVE CompleteTurns(_)
CompleteTurns(ctx) ==
    \/ ctx = <<>>
    \/ /\ Len(ctx) >= 2
       /\ IsObservationEntry(ctx[1])
       /\ \/ IsClosingEntry(ctx[2]) /\ CompleteTurns(SubSeq(ctx, 3, Len(ctx)))
          \/ /\ Len(ctx) >= 3
             /\ IsPlannerEntry(ctx[2])
             /\ IsClosingEntry(ctx[3])
             /\ CompleteTurns(SubSeq(ctx, 4, Len(ctx)))

\* C25: when a turn is over and the run goes on, the log sent to the
\* planner ended with the turn's observation entry, and the turn added to
\* it a planner entry if and only if the reasoning text is not empty, then
\* exactly one entry: the tool result if a tool was dispatched, the
\* operator prompt if none was; so the whole log is a sequence of such
\* turns.
C25_TurnEntryOrder ==
    pc \in {"sleep", "loop"} /\ n_llm > 0 =>
        /\ IsObservationEntry(sent_context[Len(sent_context)])
        /\ CompleteTurns(SubSeq(sent_context, 1, Len(sent_context) - 1))
        /\ LET thought == IF llm_response.content # <<>>
                          THEN <<PlannerEntry(llm_response.content)>> ELSE <<>>
               closing == IF dispatched THEN ToolResultEntry(last_exec.ex.text)
                          ELSE RepromptEntry
           IN  context = sent_context \o thought \o <<closing>>
        /\ CompleteTurns(context)
        /\ Cardinality({i \in 1..Len(context) : IsObservationEntry(context[i])}) = n_obs

C25_Witness ==
    /\ pc = "loop" /\ iteration = MaxIterations
    /\ Len(context) = 5
    /\ IsPlannerEntry(context[2]) /\ IsToolResultEntry(context[3])
    /\ context[5] = RepromptEntry

\* the reply under study has a first block whose payload parses
ParsedBlock(content) == HasBlock(content) /\ JsonParses(tool_call_str(content))

\* C26: for every reply the backend returned, the content of the response
\* is the reply without its tool-invocation block (if one was parsed) and
\* with the surrounding whitespace trimmed, also when no block was parsed.
C26_ReasoningTextTrimmed ==
    (pc = "interpreted" /\ interp_in.api.ok /\ interp_out # ErrorResponse("validation error")) =>
        interp_out.content =
            IF ParsedBlock(interp_in.api.content)
            THEN RemoveBlock(interp_in.api.content)
            ELSE Strip(interp_in.api.content)

\* run has ended although every collaborator call it made returned
EndedWithoutCollaboratorFault ==
    pc \in {"returned", "raised"} /\ ~(pc = "raised" /\ last_call = "observe")

\* C27: the turn counter never passes max_iterations, and a run that has
\* ended with every collaborator call returned and every handoff answered
\* has returned a result.
C27_RunReturnsResult ==
    /\ iteration <= MaxIterations
    /\ n_llm <= MaxIterations
    /\ EndedWithoutCollaboratorFault => (pc = "returned" /\ result # <<>>)

\* C28: the handoff reads the location and takes the before snapshot
\* once, when it is entered; while it waits neither changes; when it ends,
\* the after snapshot is taken if and only if the operator entered done,
\* and the resumed result then holds the location read at entry as
\* previous and the actuator's location at that moment as current.
C28_BeforeAndAfterCaptured ==
    [][/\ (pc = "dispatch" /\ pc' = "awaiting") =>
              (h_shots' = Append(h_shots, "before") /\ h_current_url' = browser_url)
       /\ (pc = "awaiting" /\ pc' = "awaiting") => UNCHANGED <<h_shots, h_current_url>>
       /\ (pc = "awaiting" /\ pc' # "awaiting") =>
              /\ UNCHANGED <<h_current_url, browser_url>>
              /\ IF h_user_input' \in {"done", "DONE"}
                 THEN /\ h_shots' = Append(h_shots, "after")
                      /\ last_exec'.outcome.val = HandoffResumed(h_current_url, browser_url)
                 ELSE h_shots' = h_shots
       /\ pc \notin {"dispatch", "awaiting"} => UNCHANGED <<h_shots, h_current_url>>]_vars

C28_Witness ==
    /\ pc = "sleep" /\ h_user_input = "done"
    /\ h_shots = <<"before", "after">>
    /\ h_current_url # browser_url
    /\ last_exec.outcome.val = HandoffResumed(h_current_url, browser_url)

\* the turn's dispatch is over and the capability returned a value
CapabilityReturned ==
    /\ pc = "sleep" /\ dispatched
    /\ last_exec.ex.invoked
    /\ last_exec.outcome.kind # "raise"

C30_FinalCallFailure ==
    pc = "returned" =>
        /\ exit_path \in {"finished", "exhausted"}
        /\ n_final = 1
        /\ ~final_api.ok =>
              (result = <<ErrPrefix, final_api.err>> /\ ~final_response.is_finished)
        /\ (final_api.ok /\ final_api.content = <<>>) =>
              result = IF exit_path = "finished"
                       THEN <<FinishedFallback>> ELSE <<ExhaustedFallback>>
        /\ (final_api.ok /\ final_api.content # <<>>) => result = final_api.content
        /\ result \in {<<FinishedFallback>>, <<ExhaustedFallback>>} =>
              (final_api.ok /\ final_api.content = <<>>)

C30_Witness ==
    /\ pc = "returned" /\ exit_path = "finished"
    /\ last_api.ok /\ ~final_api.ok
    /\ result = <<ErrPrefix, "api failure">>

C30_WitnessExhausted ==
    /\ pc = "returned" /\ exit_path = "exhausted"
    /\ ~final_api.ok
    /\ result = <<ErrPrefix, "api failure">>

(* Claims C31 - C33 *)

\* C31: the final-summary call changes neither the log, current_url nor
\* is_human_in_control: when run has returned, the log is the one that was
\* sent with the final request.
C31_FinalCallFrame ==
    /\ [](pc = "returned" => (n_final = 1 /\ last_call = "final" /\ context = sent_context))
    /\ [][(pc # "returned" /\ pc' = "returned") =>
             /\ n_final' = n_final + 1
             /\ sent_context' = context
             /\ UNCHANGED <<context, current_url, is_human_in_control, iteration>>]_vars

C31_Witness ==
    /\ pc = "returned" /\ exit_path = "finished"
    /\ final_api.ok /\ final_api.content = <<TXT>> /\ result = <<TXT>>
    /\ context = sent_context
    /\ LastEntry = PlannerEntry(<<TXT, DONE>>)

\* run has raised the fault of the browser in the observation of a turn
ObservationFaulted == pc = "raised" /\ last_call = "observe"

\* C32: when the browser raises in the observation of a turn, run ends
\* with the exception and no result; the turn has appended nothing to the
\* log and made no model call; main goes on to its finally clause, where
\* shutdown starts, and the exception leaves main after it.
C32_ObservationFaultEscapes ==
    ObservationFaulted =>
        /\ exit_path = "raised" /\ result = <<>> /\ n_final = 0
        /\ n_obs = iteration /\ n_llm = iteration
        /\ CompleteTurns(context)
        /\ ~dispatched
        /\ main_pc \in {"run", "stop", "close", "exited"}
        /\ main_pc = "run" => ENABLED RunEnds
        /\ main_pc = "stop" => (ENABLED BrowserStop /\ main_exc)
        /\ main_pc \in {"close", "exited"} => main_exc

C32_Witness ==
    /\ ObservationFaulted /\ iteration = 1
    /\ Len(context) >= 2
    /\ main_pc = "exited" /\ main_exc
    /\ ~browser_open /\ ~session_open

\* the turn's call is a handoff whose browser handle is not set
HandoffWithoutBrowser ==
    /\ pc = "dispatch"
    /\ CallOf(llm_response.tool_call).name = HandoffTool
    /\ Binds(HandoffTool, CallOf(llm_response.tool_call))
    /\ ~handoff_browser

====
